---- MODULE Spec2Model ----
(***************************************************************************)
(* Scalar advection-diffusion on a periodic 1D mesh, serial timestepping   *)
(* with the implicit theta method (paradiag/advection/serial.ipynb).       *)
(*                                                                         *)
(* Numbers are exact rationals <<numerator, denominator>> in lowest terms  *)
(* with a positive denominator; vectors and matrices are functions over    *)
(* 0..n-1, as numpy indexes them.                                          *)
(***************************************************************************)
EXTENDS Integers, Sequences, FiniteSets, TLC

(* ------------------------------ bounds -------------------------------- *)

\* largest mesh size of a time-marching run
MaxNx == 3
\* largest number of timesteps requested
MaxNt == 3
\* largest mesh size on which a single operator is assembled and applied
MaxOpN == 9

(* ------------------------- rational arithmetic ------------------------ *)

Abs(x) == IF x < 0 THEN -x ELSE x

RECURSIVE GCD(_, _)
GCD(a, b) == IF b = 0 THEN a ELSE GCD(b, a % b)

\* the rational p/d (d # 0) in lowest terms
Frac(p, d) ==
    LET g == GCD(Abs(p), Abs(d))
        s == IF d < 0 THEN -1 ELSE 1
    IN  <<(s * p) \div g, (s * d) \div g>>

Zero == <<0, 1>>
One == <<1, 1>>

RNeg(a) == <<-a[1], a[2]>>

RAdd(a, b) ==
    IF a[1] = 0 THEN b
    ELSE IF b[1] = 0 THEN a
    ELSE LET g == GCD(a[2], b[2])
         IN  Frac(a[1] * (b[2] \div g) + b[1] * (a[2] \div g),
                  (a[2] \div g) * b[2])

RSub(a, b) == RAdd(a, RNeg(b))

RMul(a, b) ==
    IF a[1] = 0 \/ b[1] = 0 THEN Zero
    ELSE LET g1 == GCD(Abs(a[1]), b[2])
             g2 == GCD(Abs(b[1]), a[2])
         IN  <<(a[1] \div g1) * (b[1] \div g2),
               (a[2] \div g2) * (b[2] \div g1)>>

\* a / b, b # 0
RDiv(a, b) == RMul(a, Frac(b[2], b[1]))

(* --------------------------- vectors, matrices ------------------------ *)

Idx(m) == 0 .. (m - 1)

\* number of entries of a vector / rows of a matrix
Size(v) == Cardinality(DOMAIN v)

RECURSIVE SumTo(_, _)
\* v[0] + ... + v[m-1]
SumTo(v, m) == IF m = 0 THEN Zero ELSE RAdd(SumTo(v, m - 1), v[m - 1])

\* numpy: v.sum()
VSum(v) == SumTo(v, Size(v))

\* scalar * matrix
MScale(a, X) == [r \in DOMAIN X |-> [c \in DOMAIN X[r] |-> RMul(a, X[r][c])]]

\* matrix + matrix, matrix - matrix
MAdd(X, Y) == [r \in DOMAIN X |-> [c \in DOMAIN X[r] |-> RAdd(X[r][c], Y[r][c])]]
MSub(X, Y) == [r \in DOMAIN X |-> [c \in DOMAIN X[r] |-> RSub(X[r][c], Y[r][c])]]

\* X.dot(v)
Dot(X, v) ==
    [r \in DOMAIN X |->
        SumTo([c \in DOMAIN v |-> RMul(X[r][c], v[c])], Size(v))]

VNeg(v) == [c \in DOMAIN v |-> RNeg(v[c])]

\* np.zeros(m)
Zeros(m) == [c \in Idx(m) |-> Zero]

\* np.roll(v, s): entry c moves to (c + s) mod m
Roll(v, s) == [c \in DOMAIN v |-> v[(c - s) % Size(v)]]

(* ------------------------------ errors -------------------------------- *)

\* a name that is not bound (yet)
None == <<>>

\* the outcome of a call: the value returned, or the exception raised
Ok(x) == [exc |-> "none", val |-> x]
Raised(e) == [exc |-> e, val |-> None]
KeyError == Raised("KeyError")
ValueError == Raised("ValueError")
RuntimeError == Raised("RuntimeError")

IsErr(x) == x.exc # "none"

(* ---------------------------- gradient_stencil ------------------------ *)

\* the dict literal of gradient_stencil
StencilDict ==
    1 :> (2 :> <<Frac(-1, 2), Zero, Frac(1, 2)>>
       @@ 4 :> <<Frac(1, 12), Frac(-2, 3), Zero, Frac(2, 3), Frac(-1, 12)>>
       @@ 6 :> <<Frac(-1, 60), Frac(3, 20), Frac(-3, 4), Zero,
                 Frac(3, 4), Frac(-3, 20), Frac(1, 60)>>)
 @@ 2 :> (2 :> <<One, Frac(-2, 1), One>>
       @@ 4 :> <<Frac(-1, 12), Frac(4, 3), Frac(-5, 2), Frac(4, 3), Frac(-1, 12)>>
       @@ 6 :> <<Frac(1, 90), Frac(-3, 20), Frac(3, 2), Frac(-49, 18),
                 Frac(3, 2), Frac(-3, 20), Frac(1, 90)>>)
 @@ 4 :> (2 :> <<One, Frac(-4, 1), Frac(6, 1), Frac(-4, 1), One>>
       @@ 4 :> <<Frac(-1, 6), Frac(2, 1), Frac(-13, 2), Frac(28, 3),
                 Frac(-13, 2), Frac(2, 1), Frac(-1, 6)>>
       @@ 6 :> <<Frac(7, 240), Frac(-2, 5), Frac(169, 60), Frac(-122, 15),
                 Frac(91, 8), Frac(-122, 15), Frac(169, 60), Frac(-2, 5),
                 Frac(7, 240)>>)

\* a lookup that falls back to second order when the order is not tabulated
gradient_stencil_default(grad, order) ==
    IF grad \notin DOMAIN StencilDict THEN KeyError
    ELSE IF order \notin DOMAIN StencilDict[grad] THEN Ok(StencilDict[grad][2])
    ELSE Ok(StencilDict[grad][order])

\* a lookup whose sixth-order second gradient has a mistyped centre
gradient_stencil_typo(grad, order) ==
    IF grad \notin DOMAIN StencilDict THEN KeyError
    ELSE IF order \notin DOMAIN StencilDict[grad] THEN KeyError
    ELSE IF grad = 2 /\ order = 6
         THEN Ok([StencilDict[grad][order] EXCEPT ![4] = Frac(-49, 16)])
    ELSE Ok(StencilDict[grad][order])

\* {...}[grad][order]: a missing key raises KeyError
gradient_stencil(grad, order) ==
    IF grad \notin DOMAIN StencilDict THEN KeyError
    ELSE IF order \notin DOMAIN StencilDict[grad] THEN KeyError
    ELSE Ok(StencilDict[grad][order])

(* ---------------------------- sparse_circulant ------------------------ *)

\* spdiags that adds up diagonals given the same offset instead of
\* rejecting them
spdiagsSummed(data, diags) ==
    LET m == Size(data[1])
    IN  Ok([r \in Idx(m) |-> [c \in Idx(m) |->
            SumTo([d \in Idx(Len(diags)) |->
                      IF diags[d + 1] = c - r THEN data[d + 1][c] ELSE Zero],
                  Len(diags))]])

\* sparse.spdiags(data, diags) with m, n omitted: the square DIA matrix of
\* side len(data[0]); entry (r, c) is data[d][c] on the diagonal
\* c - r = diags[d].  The DIA constructor rejects repeated offsets
\* ("offset array contains duplicate values").
spdiags(data, diags) ==
    LET m == Size(data[1])
    IN  IF \E d, e \in DOMAIN diags : d # e /\ diags[d] = diags[e]
        THEN ValueError
        ELSE Ok([r \in Idx(m) |-> [c \in Idx(m) |->
                 IF \E d \in DOMAIN diags : diags[d] = c - r
                 THEN data[CHOOSE d \in DOMAIN diags : diags[d] = c - r][c]
                 ELSE Zero]])

\* pstencil with the two overlaps taken from the wrong ends of the stencil
PStencilSwapped(stencil) ==
    LET ns == Len(stencil)
        noff == (ns - 1) \div 2
    IN  [d \in 1 .. (ns + 2 * noff) |->
            IF d <= noff THEN stencil[d]
            ELSE IF d <= noff + ns THEN stencil[d - noff]
            ELSE stencil[d - ns + 1]]

\* pstencil: the stencil extended by its periodic overlaps
PStencil(stencil) ==
    LET ns == Len(stencil)
        noff == (ns - 1) \div 2
    IN  [d \in 1 .. (ns + 2 * noff) |->
            IF d <= noff THEN stencil[noff + 1 + d]
            ELSE IF d <= noff + ns THEN stencil[d - noff]
            ELSE stencil[d - noff - ns]]

\* offsets whose upper overlap starts at n instead of n - noff
OffsetsPastEdge(stencil, n) ==
    LET ns == Len(stencil)
        noff == (ns - 1) \div 2
    IN  [d \in 1 .. (ns + 2 * noff) |->
            IF d <= noff THEN -n + 1 + (d - 1)
            ELSE IF d <= noff + ns THEN -noff + (d - noff - 1)
            ELSE n + (d - noff - ns - 1)]

\* offsets for the inner domain and the periodic overlaps
Offsets(stencil, n) ==
    LET ns == Len(stencil)
        noff == (ns - 1) \div 2
    IN  [d \in 1 .. (ns + 2 * noff) |->
            IF d <= noff THEN -n + 1 + (d - 1)
            ELSE IF d <= noff + ns THEN -noff + (d - noff - 1)
            ELSE n - noff + (d - noff - ns - 1)]

sparse_circulant(stencil, n) ==
    IF Len(stencil) = 1
    THEN spdiags(<<[c \in Idx(n) |-> RMul(stencil[1], One)]>>, <<0>>)
    ELSE LET pstencil == PStencil(stencil)
             pdiags == [d \in DOMAIN pstencil |-> [c \in Idx(n) |-> pstencil[d]]]
         IN  spdiags(pdiags, Offsets(stencil, n))

(* ------------------------------ factorized ---------------------------- *)

LCM(a, b) == (a \div GCD(a, b)) * b

RECURSIVE DenTo(_, _)
\* a common denominator of the first k entries (row-major) of X
DenTo(X, k) ==
    IF k = 0 THEN 1
    ELSE LET m == Size(X)
         IN  LCM(DenTo(X, k - 1), X[(k - 1) \div m][(k - 1) % m][2])

\* the k-th element removed from a sequence
Without(s, k) == SubSeq(s, 1, k - 1) \o SubSeq(s, k + 1, Len(s))

RECURSIVE DetI(_, _, _)
RECURSIVE DetRow(_, _, _, _)
\* determinant of the integer matrix B restricted to rows, cols (Laplace
\* expansion along the first of the rows)
DetI(B, rows, cols) ==
    IF Len(rows) = 0 THEN 1 ELSE DetRow(B, rows, cols, Len(cols))
DetRow(B, rows, cols, k) ==
    IF k = 0 THEN 0
    ELSE DetRow(B, rows, cols, k - 1)
         + (IF B[rows[1]][cols[k]] = 0 THEN 0
            ELSE (IF k % 2 = 1 THEN 1 ELSE -1) * B[rows[1]][cols[k]]
                 * DetI(B, Tail(rows), Without(cols, k)))

\* the indices 0..m-1 in order
Range(m) == [k \in 1 .. m |-> k - 1]

\* spla.factorized(A): the LU factorization of A, returned as the solve
\* closure x = A^{-1} b (kept as the matrix of that linear map); an exactly
\* singular A raises RuntimeError
factorized(A) ==
    LET m == Size(A)
        cd == DenTo(A, m * m)
        B == [r \in Idx(m) |-> [c \in Idx(m) |-> A[r][c][1] * (cd \div A[r][c][2])]]
        det == DetI(B, Range(m), Range(m))
    IN  IF det = 0 THEN RuntimeError
        ELSE Ok([r \in Idx(m) |-> [c \in Idx(m) |->
                 Frac((IF (r + c) % 2 = 0 THEN 1 ELSE -1) * cd
                        * DetI(B, Without(Range(m), c + 1), Without(Range(m), r + 1)),
                      det)]])

(* ------------------------------- state -------------------------------- *)

VARIABLES
    \* configuration of a run
    nx, nt, u, nu, dx, dt, theta, order,
    \* operators of the run
    M, D, L, K, A0, A1,
    \* A1.solve, and how many times a factorization was computed
    solve, nfactor,
    \* initial condition, time series, loop index, number of solves done
    qinit, q, i, nsolve,
    \* position in the notebook, and the exception raised ("none" if none)
    pc, err,
    \* one operator assembled and applied on its own
    grad, acc, n, stencil, op, v, s, out, exc, ph

cfgvars == <<nx, nt, u, nu, dx, dt, theta, order>>
runvars == <<M, D, L, K, A0, A1, solve, nfactor, qinit, q, i, nsolve, pc, err>>
opvars == <<grad, acc, n, stencil, op, v, s, out, exc, ph>>
vars == <<cfgvars, runvars, opvars>>

(* ------------------------------- inputs ------------------------------- *)

\* values the configuration cell may bind.  The engine reads u, nu, dx, dt
\* and theta only, so they are the inputs here; how the cell derives nu and
\* dt from the Reynolds and CFL numbers is left out.
UArgs == {Zero, One}
NuArgs == {Frac(-1, 1), Zero, One}
DxArgs == {One}
DtArgs == {One, Frac(1, 2), Frac(1, 3)}
ThetaArgs == {Zero, Frac(1, 2), One}
\* accuracy orders passed as order= (the notebook passes 2)
OrderArgs == {2, 3}
\* initial conditions on a mesh of m points
QArgs(m) == [Idx(m) -> {Zero, One}]
\* arguments of a single gradient_stencil call
GradKeys == {0, 1, 2, 3, 4}
AccKeys == {1, 2, 4, 6, 8}
\* shifts applied to a vector
ShiftArgs == {-1, 2, 11}

(* ---------------------------- the notebook run ------------------------ *)

OpsIdle ==
    /\ grad = 0 /\ acc = 0 /\ n = 0 /\ stencil = None
    /\ op = None /\ v = None /\ s = 0 /\ out = None /\ exc = "none"
    /\ ph = "off"

RunInit ==
    /\ nx \in 1 .. MaxNx
    /\ nt \in 0 .. MaxNt
    /\ u \in UArgs /\ nu \in NuArgs /\ dx \in DxArgs /\ dt \in DtArgs
    /\ theta \in ThetaArgs /\ order \in OrderArgs
    /\ M = None /\ D = None /\ L = None /\ K = None /\ A0 = None /\ A1 = None
    /\ solve = None /\ nfactor = 0
    /\ qinit = None /\ q = None /\ i = 0 /\ nsolve = 0
    /\ pc = "M" /\ err = "none"

Init == RunInit /\ OpsIdle

\* the statements of the notebook's cells, in the order they run
Statements ==
    <<"M", "D", "L", "K", "A0", "A1", "factor", "qinit", "alloc", "q0", "loop", "done">>

\* the series set up before the implicit system is factorized
NextStatementSeriesFirst(p) ==
    LET order2 == <<"M", "D", "L", "K", "A0", "A1", "qinit", "alloc", "q0",
                    "factor", "loop", "done">>
    IN  order2[(CHOOSE k \in DOMAIN order2 : order2[k] = p) + 1]

\* the statement that runs after statement p
NextStatement(p) ==
    Statements[(CHOOSE k \in DOMAIN Statements : Statements[k] = p) + 1]

\* an exception leaves the notebook: nothing after it runs
Raise(e) == pc' = "raised" /\ err' = e.exc

\* M = sparse_circulant([1], nx)
BuildM ==
    /\ pc = "M"
    /\ LET X == sparse_circulant(<<One>>, nx)
       IN  IF IsErr(X) THEN Raise(X) /\ M' = M
           ELSE M' = X.val /\ pc' = NextStatement(pc) /\ err' = err
    /\ UNCHANGED <<D, L, K, A0, A1, solve, nfactor, qinit, q, i, nsolve>>
    /\ UNCHANGED <<cfgvars, opvars>>

\* sparse_circulant(gradient_stencil(g, order=order), nx)
Assembled(g) ==
    LET st == gradient_stencil(g, order)
    IN  IF IsErr(st) THEN st ELSE sparse_circulant(st.val, nx)

\* D = sparse_circulant(gradient_stencil(1, order=2), nx)
BuildD ==
    /\ pc = "D"
    /\ LET X == Assembled(1)
       IN  IF IsErr(X) THEN Raise(X) /\ D' = D
           ELSE D' = X.val /\ pc' = NextStatement(pc) /\ err' = err
    /\ UNCHANGED <<M, L, K, A0, A1, solve, nfactor, qinit, q, i, nsolve>>
    /\ UNCHANGED <<cfgvars, opvars>>

\* L = sparse_circulant(gradient_stencil(2, order=2), nx)
BuildL ==
    /\ pc = "L"
    /\ LET X == Assembled(2)
       IN  IF IsErr(X) THEN Raise(X) /\ L' = L
           ELSE L' = X.val /\ pc' = NextStatement(pc) /\ err' = err
    /\ UNCHANGED <<M, D, K, A0, A1, solve, nfactor, qinit, q, i, nsolve>>
    /\ UNCHANGED <<cfgvars, opvars>>

\* (u/dx)*D - (nu/dx**2)*L
SpatialTerms(uu, nn, dd, DD, LL) ==
    MSub(MScale(RDiv(uu, dd), DD), MScale(RDiv(nn, RMul(dd, dd)), LL))

\* K = (u/dx)*D - (nu/dx**2)*L
BuildK ==
    /\ pc = "K"
    /\ K' = SpatialTerms(u, nu, dx, D, L)
    /\ pc' = NextStatement(pc)
    /\ UNCHANGED <<M, D, L, A0, A1, solve, nfactor, qinit, q, i, nsolve, err>>
    /\ UNCHANGED <<cfgvars, opvars>>

\* the explicit side weighted by theta instead of 1 - theta
LeftOperatorTheta(MM, KK, th, tt) ==
    MAdd(MScale(RDiv(Frac(-1, 1), tt), MM), MScale(th, KK))

\* -M/dt + (1 - theta)*K
LeftOperator(MM, KK, th, tt) ==
    MAdd(MScale(RDiv(Frac(-1, 1), tt), MM), MScale(RSub(One, th), KK))

\* M/dt + theta*K
RightOperator(MM, KK, th, tt) ==
    MAdd(MScale(RDiv(One, tt), MM), MScale(th, KK))

\* A0 = -M/dt + (1 - theta)*K
BuildA0 ==
    /\ pc = "A0"
    /\ A0' = LeftOperator(M, K, theta, dt)
    /\ pc' = NextStatement(pc)
    /\ UNCHANGED <<M, D, L, K, A1, solve, nfactor, qinit, q, i, nsolve, err>>
    /\ UNCHANGED <<cfgvars, opvars>>

\* A1 = M/dt + theta*K
BuildA1 ==
    /\ pc = "A1"
    /\ A1' = RightOperator(M, K, theta, dt)
    /\ pc' = NextStatement(pc)
    /\ UNCHANGED <<M, D, L, K, A0, solve, nfactor, qinit, q, i, nsolve, err>>
    /\ UNCHANGED <<cfgvars, opvars>>

\* A1.solve = spla.factorized(A1.tocsc())
Factorize ==
    /\ pc = "factor"
    /\ nfactor' = nfactor + 1
    /\ LET F == factorized(A1)
       IN  IF IsErr(F) THEN Raise(F) /\ solve' = solve
           ELSE solve' = F.val /\ pc' = NextStatement(pc) /\ err' = err
    /\ UNCHANGED <<M, D, L, K, A0, A1, qinit, q, i, nsolve>>
    /\ UNCHANGED <<cfgvars, opvars>>

\* qinit = np.zeros_like(mesh); qinit[:] = ...
InitialConditions ==
    /\ pc = "qinit"
    /\ qinit' \in QArgs(nx)
    /\ pc' = NextStatement(pc)
    /\ UNCHANGED <<M, D, L, K, A0, A1, solve, nfactor, q, i, nsolve, err>>
    /\ UNCHANGED <<cfgvars, opvars>>

\* q = np.zeros((nt+1, len(qinit)))
AllocSeries ==
    /\ pc = "alloc"
    /\ q' = [k \in 0 .. nt |-> Zeros(Size(qinit))]
    /\ pc' = NextStatement(pc)
    /\ UNCHANGED <<M, D, L, K, A0, A1, solve, nfactor, qinit, i, nsolve, err>>
    /\ UNCHANGED <<cfgvars, opvars>>

\* q[0] = qinit
SetInitial ==
    /\ pc = "q0"
    /\ q' = [q EXCEPT ![0] = qinit]
    /\ i' = 0
    /\ pc' = NextStatement(pc)
    /\ UNCHANGED <<M, D, L, K, A0, A1, solve, nfactor, qinit, nsolve, err>>
    /\ UNCHANGED <<cfgvars, opvars>>

\* range(m)
PyRange(m) == 0 .. (m - 1)

\* A1.solve(-A0.dot(q[i]))
Update(F, X, qi) == Dot(F, VNeg(Dot(X, qi)))

\* a pass that factorizes A1 again before it solves
StepRefactorizing ==
    /\ pc = "loop"
    /\ i \in PyRange(nt - 1)
    /\ solve' = factorized(A1).val
    /\ nfactor' = nfactor + 1
    /\ q' = [q EXCEPT ![i + 1] = Update(solve', A0, q[i])]
    /\ nsolve' = nsolve + 1
    /\ i' = i + 1
    /\ UNCHANGED <<M, D, L, K, A0, A1, qinit, pc, err>>
    /\ UNCHANGED <<cfgvars, opvars>>

\* one pass of: for i in range(nt-1): q[i+1] = A1.solve(-A0.dot(q[i]))
Step ==
    /\ pc = "loop"
    /\ i \in PyRange(nt - 1)
    /\ q' = [q EXCEPT ![i + 1] = Update(solve, A0, q[i])]
    /\ nsolve' = nsolve + 1
    /\ i' = i + 1
    /\ UNCHANGED <<M, D, L, K, A0, A1, solve, nfactor, qinit, pc, err>>
    /\ UNCHANGED <<cfgvars, opvars>>

\* the range is exhausted
EndLoop ==
    /\ pc = "loop"
    /\ i \notin PyRange(nt - 1)
    /\ pc' = NextStatement(pc)
    /\ UNCHANGED <<M, D, L, K, A0, A1, solve, nfactor, qinit, q, i, nsolve, err>>
    /\ UNCHANGED <<cfgvars, opvars>>

Next ==
    \/ BuildM \/ BuildD \/ BuildL \/ BuildK \/ BuildA0 \/ BuildA1
    \/ Factorize \/ InitialConditions \/ AllocSeries \/ SetInitial
    \/ Step \/ EndLoop

Spec == Init /\ [][Next]_vars

(* ------------------- one operator, assembled and applied --------------- *)

RunIdle ==
    /\ nx = 0 /\ nt = 0 /\ u = Zero /\ nu = Zero /\ dx = One /\ dt = One
    /\ theta = Zero /\ order = 0
    /\ M = None /\ D = None /\ L = None /\ K = None /\ A0 = None /\ A1 = None
    /\ solve = None /\ nfactor = 0
    /\ qinit = None /\ q = None /\ i = 0 /\ nsolve = 0
    /\ pc = "off" /\ err = "none"

OpsInit ==
    /\ RunIdle
    /\ grad = 0 /\ acc = 0 /\ n = 0 /\ stencil = None
    /\ op = None /\ v = None /\ s = 0 /\ out = None /\ exc = "none"
    /\ ph = "idle"

\* stencil = gradient_stencil(g, o)
Lookup ==
    /\ ph = "idle"
    /\ \E g \in GradKeys, o \in AccKeys :
        LET st == gradient_stencil(g, o)
        IN  /\ grad' = g /\ acc' = o
            /\ stencil' = st.val
            /\ exc' = st.exc
            /\ ph' = IF IsErr(st) THEN "raised" ELSE "stencil"
    /\ UNCHANGED <<n, op, v, s, out>>
    /\ UNCHANGED <<cfgvars, runvars>>

\* the mass stencil [1]
MassStencil ==
    /\ ph = "idle"
    /\ grad' = 0 /\ acc' = 0
    /\ stencil' = <<One>>
    /\ ph' = "stencil"
    /\ UNCHANGED <<n, op, v, s, out, exc>>
    /\ UNCHANGED <<cfgvars, runvars>>

\* op = sparse_circulant(stencil, m)
Assemble ==
    /\ ph = "stencil"
    /\ \E m \in 1 .. MaxOpN :
        LET X == sparse_circulant(stencil, m)
        IN  /\ n' = m
            /\ op' = X.val
            /\ exc' = X.exc
            /\ ph' = IF IsErr(X) THEN "raised" ELSE "operator"
    /\ UNCHANGED <<grad, acc, stencil, v, s, out>>
    /\ UNCHANGED <<cfgvars, runvars>>

\* op.dot(x) and op.dot(np.roll(x, k))
Apply ==
    /\ ph = "operator"
    /\ \E x \in QArgs(n), k \in ShiftArgs :
        /\ v' = x /\ s' = k
        /\ out' = [direct |-> Dot(op, x), rolled |-> Dot(op, Roll(x, k))]
    /\ ph' = "applied"
    /\ UNCHANGED <<grad, acc, n, stencil, op, exc>>
    /\ UNCHANGED <<cfgvars, runvars>>

\* the next call starts from a clean slate
Again ==
    /\ ph \in {"raised", "applied"}
    /\ grad' = 0 /\ acc' = 0 /\ n' = 0 /\ stencil' = None
    /\ op' = None /\ v' = None /\ s' = 0 /\ out' = None /\ exc' = "none"
    /\ ph' = "idle"
    /\ UNCHANGED <<cfgvars, runvars>>

OpsNext == Lookup \/ MassStencil \/ Assemble \/ Apply \/ Again

OpsSpec == OpsInit /\ [][OpsNext]_vars

(* ------------------------------- claims ------------------------------- *)

\* the run has returned its series
Returned == pc = "done"

\* C1: a finished run holds nt+1 states, starts from the initial condition,
\* has taken one solve per step i = 0 .. nt-1, and every entry after the
\* first is the update of the entry before it (none is an unwritten row).
C1_MarchesEveryStep ==
    Returned =>
        /\ DOMAIN q = 0 .. nt
        /\ q[0] = qinit
        /\ nsolve = nt
        /\ \A k \in 0 .. (nt - 1) : q[k + 1] = Update(solve, A0, q[k])

\* C2: with u = 0 and nu = 0 (K the zero operator) every state of the
\* returned series equals the initial state.
C2_ZeroOperatorKeepsState ==
    (Returned /\ u = Zero /\ nu = Zero) =>
        \A k \in 0 .. nt : q[k] = q[0]

\* C3: the sum of the entries is the same at every index of the returned
\* series.
C3_SumConserved ==
    Returned => \A k \in 0 .. nt : VSum(q[k]) = VSum(q[0])

\* column c of X, summed
ColSum(X, c) == SumTo([r \in DOMAIN X |-> X[r][c]], Size(X))

\* C4: the entries of K applied to a vector sum to zero, for every vector:
\* every column of K sums to zero, and so does K q for the vectors at hand.
C4_KSumsToZero ==
    (K # None) =>
        /\ \A c \in Idx(nx) : ColSum(K, c) = Zero
        /\ \A x \in QArgs(nx) : VSum(Dot(K, x)) = Zero
        /\ (q # None) => \A k \in DOMAIN q : VSum(Dot(K, q[k])) = Zero

\* a run with advection and diffusion whose state has moved
C4_Witness ==
    /\ Returned /\ u = One /\ nu = One /\ nsolve >= 2
    /\ K[0][0] # Zero /\ K[0][1] # K[1][0]
    /\ q[1] # q[0] /\ q[2] # q[1]
    /\ VSum(q[0]) # Zero

\* the stencil in hand came from gradient_stencil (not the mass stencil)
Tabulated == acc # 0 /\ ph \in {"stencil", "operator", "applied"}

\* half-width of the stencil in hand
HalfWidth == (Len(stencil) - 1) \div 2

\* row r of X is row 0 rolled by r
CirculantRows(X) ==
    \A r \in DOMAIN X : \A c \in DOMAIN X : X[r][c] = X[0][(c - r) % Size(X)]

\* C5 as stated: on every mesh of 8 or more points, any tabulated stencil
\* (half-width up to 4, the mesh of 8 = 2k points included) is assembled
\* into an operator whose rows are rolls of row 0 and which commutes with
\* the cyclic shift.
C5_EveryMeshFromEight ==
    (acc # 0 /\ n >= 8) =>
        /\ ph \in {"operator", "applied"}
        /\ CirculantRows(op)
        /\ (ph = "applied") => out.rolled = Roll(out.direct, s)

\* C5, amended: on every mesh of n >= 8 points with n > 2k, the operator
\* assembled from a tabulated stencil has rows that are rolls of row 0 and
\* commutes with the cyclic shift; on the mesh of n = 2k points no operator
\* is assembled.
C5_ShiftCommutes ==
    (acc # 0 /\ n >= 8) =>
        /\ (ph \in {"operator", "applied"}) =>
              /\ n > 2 * HalfWidth
              /\ CirculantRows(op)
              /\ (ph = "applied") => out.rolled = Roll(out.direct, s)
        /\ (ph = "raised") => (n <= 2 * HalfWidth /\ op = None)

\* a seven-point stencil applied to a vector that a shift past the mesh
\* size moves
C5_Witness ==
    /\ ph = "applied" /\ acc # 0 /\ n = 8 /\ HalfWidth = 3
    /\ s > n /\ Roll(v, s) # v
    /\ out.direct # Zeros(n) /\ out.rolled # out.direct

\* C6: for a stencil of half-width k >= 1 and a mesh of n <= 2k points the
\* assembly fails: the error reaches the caller and no operator is produced.
C6_DegenerateMeshFails ==
    (/\ ph \in {"operator", "applied", "raised"}
     /\ n >= 1 /\ stencil # None /\ HalfWidth >= 1 /\ n <= 2 * HalfWidth) =>
        /\ ph = "raised"
        /\ exc = "ValueError"
        /\ op = None

\* the nine-point stencil on the mesh of 8 = 2k points
C6_Witness ==
    /\ ph = "raised" /\ exc = "ValueError" /\ op = None
    /\ n = 8 /\ stencil # None /\ HalfWidth = 4

\* identity matrix of side m
Eye(m) == [r \in Idx(m) |-> [c \in Idx(m) |-> IF r = c THEN One ELSE Zero]]

\* X @ Y
MatMul(X, Y) ==
    [r \in DOMAIN X |-> [c \in DOMAIN Y |->
        SumTo([k \in DOMAIN Y |-> RMul(X[r][k], Y[k][c])], Size(Y))]]

\* C7: the factorization is computed at most once, it is the factorization
\* of the A1 assembled from (theta, dt, K, M), it is the one in place after
\* any number of solves, and every state written by the loop solves A1 x =
\* -A0 q[k] with it.
C7_FactorizedOnce ==
    /\ nfactor <= 1
    /\ (solve # None) =>
          /\ nfactor = 1
          /\ A1 = RightOperator(M, K, theta, dt)
          /\ MatMul(solve, A1) = Eye(nx)
          /\ \A k \in 0 .. (nsolve - 1) :
                /\ q[k + 1] = Dot(solve, VNeg(Dot(A0, q[k])))
                /\ Dot(A1, q[k + 1]) = VNeg(Dot(A0, q[k]))

\* two solves done with the one factorization of an A1 that is not M/dt
C7_Witness ==
    /\ Returned /\ nsolve >= 2 /\ nfactor = 1
    /\ theta # Zero /\ A1[0][1] # Zero
    /\ q[2] # q[1]

\* the pairs the table holds
Supported(g, o) == g \in {1, 2, 4} /\ o \in {2, 4, 6}

\* C8: a lookup returns the tabulated stencil exactly when the derivative
\* order is in {1, 2, 4} and the accuracy order in {2, 4, 6} ((1,2) gives
\* [-1/2, 0, 1/2], (2,2) gives [1, -2, 1]); any other pair fails with the
\* lookup error and returns no stencil, whatever calls came before.
C8_LookupOrError ==
    (acc # 0) =>
        /\ Supported(grad, acc) =>
              /\ ph \in {"stencil", "operator", "applied", "raised"}
              /\ (ph = "raised") => exc = "ValueError"
              /\ stencil = StencilDict[grad][acc]
              /\ (grad = 1 /\ acc = 2) => stencil = <<<<-1, 2>>, <<0, 1>>, <<1, 2>>>>
              /\ (grad = 2 /\ acc = 2) => stencil = <<<<1, 1>>, <<-2, 1>>, <<1, 1>>>>
        /\ (~Supported(grad, acc)) =>
              /\ ph = "raised"
              /\ exc = "KeyError"
              /\ stencil = None /\ op = None /\ out = None

\* a failing lookup of a tabulated gradient at an order it does not hold
C8_Witness ==
    /\ ph = "raised" /\ exc = "KeyError" /\ stencil = None
    /\ grad = 2 /\ acc = 8

RECURSIVE SeqSum(_)
\* sum of the coefficients of a stencil
SeqSum(st) == IF Len(st) = 0 THEN Zero ELSE RAdd(st[1], SeqSum(Tail(st)))

\* C9: the coefficients of every stencil a supported lookup returns sum to
\* exactly zero, and the stencil has odd length 2k+1 with k >= 1.
C9_StencilSumsToZero ==
    Tabulated =>
        /\ Supported(grad, acc)
        /\ SeqSum(stencil) = Zero
        /\ Len(stencil) % 2 = 1
        /\ Len(stencil) = 2 * HalfWidth + 1
        /\ HalfWidth >= 1

\* the sixth-order second gradient, whose coefficients are not symmetric
\* about zero in sign
C9_Witness ==
    /\ ph = "stencil" /\ grad = 2 /\ acc = 6
    /\ Len(stencil) = 7 /\ stencil[4] = Frac(-49, 18)

\* C10: an exception is raised only while the operators are built and A1
\* is factorized, before the initial condition or the series exist and
\* before any solve; once the series is allocated nothing raises, and the
\* run ends with a series of nt+1 rows of nx entries.
C10_FailuresBeforeSeries ==
    /\ (pc = "raised") =>
          /\ err \in {"KeyError", "ValueError", "RuntimeError"}
          /\ qinit = None /\ q = None /\ nsolve = 0 /\ solve = None
          /\ (err \in {"KeyError", "ValueError"}) => (K = None /\ nfactor = 0)
          /\ (err = "RuntimeError") => (A1 # None /\ nfactor = 1)
    /\ (pc # "raised") => err = "none"
    /\ (q # None) =>
          /\ pc \in {"q0", "loop", "done"}
          /\ solve # None
          /\ DOMAIN q = 0 .. nt
          /\ \A k \in 0 .. nt : DOMAIN q[k] = Idx(nx)

\* a singular A1 stops the run at the factorization
C10_Witness ==
    /\ pc = "raised" /\ err = "RuntimeError"
    /\ A1 # None /\ q = None /\ nt >= 2

\* the statements that run once the implicit system is constructed
AfterConstruction == {"qinit", "alloc", "q0", "loop", "done"}

\* C11 as stated: the factorization is lazy: constructing the implicit
\* system factorizes nothing, the first solve triggers it, and a run that
\* never solves (nt = 0) never factorizes.
C11_FactorizedAtFirstSolve ==
    /\ (nfactor >= 1) => nsolve >= 1
    /\ (Returned /\ nsolve = 0) => nfactor = 0

\* C11, amended: the factorization is eager: it is computed by the
\* statement that constructs the implicit system, so it is in place before
\* the first solve and in every run that gets past construction, those
\* that never solve (nt = 0) included; no solve computes one.
C11_FactorizedAtConstruction ==
    /\ (pc \in AfterConstruction) => (nfactor = 1 /\ solve # None)
    /\ (pc \in {"M", "D", "L", "K", "A0", "A1", "factor"}) =>
          (nfactor = 0 /\ solve = None /\ nsolve = 0)
    /\ (nsolve >= 1) => nfactor = 1
    /\ (Returned /\ nt = 0) => (nfactor = 1 /\ nsolve = 0)

\* a run of nt = 0 steps that has factorized A1 and solved nothing
C11_Witness ==
    /\ Returned /\ nt = 0 /\ nfactor = 1 /\ nsolve = 0
    /\ solve # None /\ theta # Zero

\* the sum of stencil[j+k] over the positions j in [-k, k] with
\* (r + j) mod m = c
Landed(st, m, r, c) ==
    LET k == (Len(st) - 1) \div 2
    IN  SumTo([e \in Idx(Len(st)) |->
                  IF (r + (e - k)) % m = c THEN st[e + 1] ELSE Zero],
              Len(st))

\* C12 as stated: for every stencil of half-width k >= 1 and every mesh of
\* n >= 1 points (n <= 2k included) sparse_circulant returns a matrix whose
\* entry (r, c) is the sum of the coefficients landing on it: coefficients
\* on the same offset accumulate, none is dropped.
C12_EveryMeshAccumulates ==
    (stencil # None /\ n >= 1 /\ HalfWidth >= 1) =>
        /\ ph \in {"operator", "applied"}
        /\ \A r \in Idx(n) : \A c \in Idx(n) :
              op[r][c] = Landed(stencil, n, r, c)

\* C12, amended: for every stencil of half-width k >= 1 and every mesh of
\* n > 2k points the matrix sparse_circulant returns has entry (r, c) equal
\* to the sum of the coefficients landing on it (one coefficient at most,
\* none dropped); on a mesh of n <= 2k points, where coefficients would
\* share an offset, it returns no matrix and raises.
C12_EntriesWhereAssembled ==
    (stencil # None /\ n >= 1 /\ HalfWidth >= 1) =>
        /\ (n > 2 * HalfWidth) =>
              /\ ph \in {"operator", "applied"}
              /\ \A r \in Idx(n) : \A c \in Idx(n) :
                    op[r][c] = Landed(stencil, n, r, c)
        /\ (n <= 2 * HalfWidth) =>
              (ph = "raised" /\ exc = "ValueError" /\ op = None)

\* the sixth-order first gradient on the smallest mesh that holds it
C12_Witness ==
    /\ ph = "operator" /\ grad = 1 /\ acc = 6 /\ n = 7
    /\ op[0][6] = Frac(-3, 4) /\ op[0][4] = Frac(-1, 60)
    /\ op[6][0] = Frac(3, 4)

\* scalar * vector, vector + vector, vector - vector
VScale(a, x) == [c \in DOMAIN x |-> RMul(a, x[c])]
VAdd(x, y) == [c \in DOMAIN x |-> RAdd(x[c], y[c])]
VSub(x, y) == [c \in DOMAIN x |-> RSub(x[c], y[c])]

\* C13: every state the loop writes satisfies A0 q[k] + A1 q[k+1] = 0, the
\* implicit theta update M (q[k+1] - q[k])/dt + theta K q[k+1]
\* + (1 - theta) K q[k] = 0 and the documented form (M + dt theta K) q[k+1]
\* = (M - dt (1 - theta) K) q[k]; for theta = 0 (M the identity) it is the
\* explicit update q[k+1] = q[k] - dt K q[k].
C13_ThetaUpdate ==
    (q # None) =>
        \A k \in 0 .. (nsolve - 1) :
            /\ VAdd(Dot(A0, q[k]), Dot(A1, q[k + 1])) = Zeros(nx)
            /\ VAdd(VScale(RDiv(One, dt), Dot(M, VSub(q[k + 1], q[k]))),
                    VAdd(VScale(theta, Dot(K, q[k + 1])),
                         VScale(RSub(One, theta), Dot(K, q[k]))))
                 = Zeros(nx)
            /\ VAdd(Dot(M, q[k + 1]), VScale(RMul(dt, theta), Dot(K, q[k + 1])))
                 = VSub(Dot(M, q[k]),
                        VScale(RMul(dt, RSub(One, theta)), Dot(K, q[k])))
            /\ (theta = Zero) =>
                  q[k + 1] = VSub(q[k], VScale(dt, Dot(K, q[k])))

\* two trapezium-rule steps with advection and diffusion
C13_Witness ==
    /\ Returned /\ nsolve >= 2
    /\ theta = Frac(1, 2) /\ u = One /\ nu = One /\ dt = Frac(1, 2)
    /\ q[1] # q[0] /\ q[2] # q[1]

====
